---- MODULE Spec2Model ----
(***************************************************************************)
(* Model of main.py: the 8-ary 3D signal simulation.  One run of the       *)
(* script is a sequence of steps (the script's own "Step" sections); each  *)
(* step that changes program state is one action.                          *)
(*                                                                         *)
(* Numbers.  Amplitudes, noise samples and received coordinates are        *)
(* integers: on integer-valued inputs of this size float64 subtraction,    *)
(* squaring and summation are exact, so the model computes what the code   *)
(* computes on those inputs.  np.linalg.norm is held as its radicand (the  *)
(* sum of squares): float64 sqrt is strictly increasing on these integers, *)
(* so np.argmin orders and ties norms exactly as it orders and ties the    *)
(* radicands.  Magnitudes at which float64 rounds const - r (a coordinate  *)
(* more than 2^53 times larger or smaller than A) lie outside the bounds.  *)
(*                                                                         *)
(* Indices are 0-based as in the code; the i-th element (0-based) of an    *)
(* array a is a[i + 1].                                                    *)
(***************************************************************************)
EXTENDS Integers, Sequences, FiniteSets

VARIABLES pc, raised,
          A, M, N, N0, noise_var, sigma,
          const_points, tx_index, tx_data, noise, rx_data,
          rx_index, prev_index, errors, Pe, grid, closest

vars == <<pc, raised, A, M, N, N0, noise_var, sigma, const_points, tx_index,
          tx_data, noise, rx_data, rx_index, prev_index, errors, Pe, grid,
          closest>>

(***************************************************************************)
(* Bounds of the model.                                                    *)
(***************************************************************************)
MaxA == 2          \* amplitudes A of a valid run range over 1..MaxA
HalfGrid == 2      \* the decision map's grid has 2*HalfGrid points per axis
MaxCoord == 2      \* coordinates of a received point handed to detect
MaxM == 2          \* size of a free-form constellation handed to detect

\* Symbol counts N of a valid run (line 16).
SymbolCounts == {1, 2}
\* Noise power values N0 (line 17); noise_var = N0/2 is then 0 or 1.
N0Values == {0, 2}
\* Standard-normal draws z; a noise sample is sigma*z.
ZSamples == {-2, 0, 2}
\* Coordinates of a free-form constellation point handed to detect.
ConstCoords == {0, 1}

\* Dimensionality of the cube constellation: product(..., repeat=3).
D == 3

\* A name that has not been assigned yet.
Unset == "unset"

(***************************************************************************)
(* Arithmetic helpers.                                                     *)
(***************************************************************************)
RECURSIVE SumSeq(_)
SumSeq(s) == IF s = <<>> THEN 0 ELSE Head(s) + SumSeq(Tail(s))

\* np.sqrt on a perfect square.
Sqrt(x) == CHOOSE r \in 0..x : r * r = x

Max2(a, b) == IF a >= b THEN a ELSE b

(***************************************************************************)
(* Step 2: itertools.product(pool, repeat=n), in its enumeration order:    *)
(* result = [[]]; for each pool: result = [x+[y] for x in result for y in  *)
(* pool].  The last position varies fastest.                               *)
(***************************************************************************)
RECURSIVE Concat(_)
Concat(ss) == IF ss = <<>> THEN <<>> ELSE Head(ss) \o Concat(Tail(ss))

\* Extend with the inner loop stuck on the pool's first element.
ExtendFirst(result, pool) ==
    Concat([i \in 1..Len(result) |->
              [j \in 1..Len(pool) |-> Append(result[i], pool[1])]])

Extend(result, pool) ==
    Concat([i \in 1..Len(result) |->
              [j \in 1..Len(pool) |-> Append(result[i], pool[j])]])

RECURSIVE product(_, _)
product(pool, repeat) ==
    IF repeat = 0 THEN << <<>> >>
    ELSE Extend(product(pool, repeat - 1), pool)

(***************************************************************************)
(* Step 5: detect(received, const).                                        *)
(***************************************************************************)
\* numpy broadcasting of a (M, d) array against a (dr,) vector.
Broadcastable(d, dr) == d = dr \/ d = 1 \/ dr = 1

\* const + r in place of const - r.
RowAdd(c, r) ==
    [k \in 1..Max2(Len(c), Len(r)) |->
        c[IF Len(c) = 1 THEN 1 ELSE k] + r[IF Len(r) = 1 THEN 1 ELSE k]]

\* One row of  const - r  under broadcasting.
RowSub(c, r) ==
    [k \in 1..Max2(Len(c), Len(r)) |->
        c[IF Len(c) = 1 THEN 1 ELSE k] - r[IF Len(r) = 1 THEN 1 ELSE k]]

\* The norm with the last coordinate left out.
normDropLast(v) == SumSeq([k \in 1..(Len(v) - 1) |-> v[k] * v[k]])

\* np.linalg.norm(v) of one row, held as its radicand sum(v**2).
norm(v) == SumSeq([k \in 1..Len(v) |-> v[k] * v[k]])

\* np.linalg.norm(const - r, axis=1)
Distances(const, r) == [m \in 1..Len(const) |-> norm(RowSub(const[m], r))]

\* np.argmin: scan keeping the first strictly smallest element (0-based).
RECURSIVE ArgMinScan(_, _, _)
ArgMinScan(dist, i, best) ==
    IF i > Len(dist) THEN best - 1
    ELSE ArgMinScan(dist, i + 1, IF dist[i] < dist[best] THEN i ELSE best)

\* The scan keeping the last smallest element (<= in place of <).
RECURSIVE ArgMinLastScan(_, _, _)
ArgMinLastScan(dist, i, best) ==
    IF i > Len(dist) THEN best - 1
    ELSE ArgMinLastScan(dist, i + 1, IF dist[i] <= dist[best] THEN i ELSE best)

argminLast(dist) == ArgMinLastScan(dist, 2, 1)

argmin(dist) == ArgMinScan(dist, 2, 1)

\* const - r raises ValueError (operands could not be broadcast together).
DetectRaises(received, const) ==
    \E i \in 1..Len(received) : \E m \in 1..Len(const) :
        ~Broadcastable(Len(const[m]), Len(received[i]))

detect(received, const) ==
    [i \in 1..Len(received) |-> argmin(Distances(const, received[i]))]

(***************************************************************************)
(* Steps 3, 4 and 6: the array expressions of the pipeline.                *)
(***************************************************************************)
\* const_points[tx_index]  (fancy indexing, line 45)
Take(const, index) == [i \in 1..Len(index) |-> const[index[i] + 1]]

\* tx_data + noise[::-1]: the noise rows paired in reverse order.
AddNoiseReversed(tx, nz) ==
    [i \in 1..Len(tx) |->
        [k \in 1..Len(tx[i]) |-> tx[i][k] + nz[Len(tx) + 1 - i][k]]]

\* tx_data + noise  (elementwise, line 55)
AddNoise(tx, nz) ==
    [i \in 1..Len(tx) |-> [k \in 1..Len(tx[i]) |-> tx[i][k] + nz[i][k]]]

\* np.sum(tx_index == rx_index): matches counted in place of mismatches.
CountMatches(tx, rx) ==
    SumSeq([i \in 1..Len(tx) |-> IF tx[i] = rx[i] THEN 1 ELSE 0])

\* np.sum(tx_index != rx_index)  (line 81)
CountErrors(tx, rx) ==
    SumSeq([i \in 1..Len(tx) |-> IF tx[i] # rx[i] THEN 1 ELSE 0])

\* errors / N  (line 82): the quotient, held as numerator and denominator;
\* a zero denominator is NaN (numpy's 0/0).
Quotient(e, n) == [num |-> e, den |-> n]

(***************************************************************************)
(* Step 10: the decision map.  np.linspace(start, stop, num) is            *)
(* start + k*(stop-start)/(num-1); the map's geometry is held in units of  *)
(* 1/(num-1), so a grid value is start*(num-1) + k*(stop-start) and the    *)
(* constellation is scaled by (num-1) alike (argmin does not change under  *)
(* a common positive scale).                                               *)
(***************************************************************************)
GridNum == 2 * HalfGrid

linspace(start, stop, num) ==
    [k \in 1..num |-> start * (num - 1) + (k - 1) * (stop - start)]

Scaled(const, s) ==
    [m \in 1..Len(const) |-> [k \in 1..Len(const[m]) |-> s * const[m][k]]]

\* The stack with X and Y exchanged: row i*n + j is (g[i], g[j], 0).
AllPointsTransposed(g) ==
    [p \in 1..(Len(g) * Len(g)) |->
        << g[((p - 1) \div Len(g)) + 1], g[((p - 1) % Len(g)) + 1], 0 >>]

\* X, Y = np.meshgrid(g, g); Z = zeros; all_points = stack of the flattened
\* X, Y, Z: row i*n + j is (g[j], g[i], 0).
AllPoints(g) ==
    [p \in 1..(Len(g) * Len(g)) |->
        << g[((p - 1) % Len(g)) + 1], g[((p - 1) \div Len(g)) + 1], 0 >>]

\* The distance matrix with the x coordinate left out of the norm.
DistanceMatrixNoX(points, const) ==
    [p \in 1..Len(points) |->
        [m \in 1..Len(const) |-> norm([k \in 1..(Len(points[p]) - 1) |->
                                  points[p][k + 1] - const[m][k + 1]])]]

\* distances = norm(all_points[:, None, :] - const[None, :, :], axis=2)
DistanceMatrix(points, const) ==
    [p \in 1..Len(points) |->
        [m \in 1..Len(const) |-> norm([k \in 1..Len(points[p]) |->
                                          points[p][k] - const[m][k]])]]

\* closest = np.argmin(distances, axis=1).reshape(X.shape)
Closest(g, const) ==
    LET dm == DistanceMatrix(AllPoints(g), Scaled(const, Len(g) - 1))
        flat == [p \in 1..Len(dm) |-> argmin(dm[p])]
    IN  [i \in 1..Len(g) |-> [j \in 1..Len(g) |-> flat[(i - 1) * Len(g) + j]]]

(***************************************************************************)
(* The script, step by step.                                               *)
(***************************************************************************)
Start(a, n, n0) ==
    /\ pc = "params"
    /\ A = a /\ M = 8 /\ N = n /\ N0 = n0
    /\ raised = "none"
    /\ noise_var = Unset /\ sigma = Unset
    /\ const_points = <<>> /\ tx_index = <<>> /\ tx_data = <<>>
    /\ noise = <<>> /\ rx_data = <<>> /\ rx_index = <<>> /\ prev_index = <<>>
    /\ errors = Unset /\ Pe = Unset /\ grid = <<>> /\ closest = <<>>

\* Lines 14-17 with a valid configuration.
Init == \E a \in 1..MaxA, n \in SymbolCounts, n0 \in N0Values : Start(a, n, n0)

\* Lines 14-17 with any configuration: A, N or N0 may be zero, A or N negative.
InitAny == \E a \in (-1)..MaxA, n \in (-1)..1, n0 \in N0Values : Start(a, n, n0)

\* Lines 14-17 with a valid configuration of one symbol.
InitMap == \E a \in 1..MaxA, n0 \in N0Values : Start(a, 1, n0)

\* Lines 19-20.
DeriveNoise ==
    /\ pc = "params"
    /\ noise_var' = N0 \div 2
    /\ sigma' = Sqrt(N0 \div 2)
    /\ pc' = "constellation"
    /\ UNCHANGED <<raised, A, M, N, N0, const_points, tx_index, tx_data, noise,
                   rx_data, rx_index, prev_index, errors, Pe, grid, closest>>

\* Lines 34-35.
Constellation ==
    /\ pc = "constellation"
    /\ const_points' = product(<<-A, A>>, D)
    /\ pc' = "transmit"
    /\ UNCHANGED <<raised, A, M, N, N0, noise_var, sigma, tx_index, tx_data,
                   noise, rx_data, rx_index, prev_index, errors, Pe, grid,
                   closest>>

\* Lines 44-45: np.random.randint(0, M, N) raises ValueError for N < 0.
Transmit ==
    /\ pc = "transmit"
    /\ IF N < 0
       THEN /\ raised' = "ValueError"
            /\ pc' = "aborted"
            /\ UNCHANGED <<tx_index, tx_data>>
       ELSE /\ \E idx \in [1..N -> 0..(M - 1)] :
                 /\ tx_index' = idx
                 /\ tx_data' = Take(const_points, idx)
            /\ pc' = "channel"
            /\ UNCHANGED raised
    /\ UNCHANGED <<A, M, N, N0, noise_var, sigma, const_points, noise, rx_data,
                   rx_index, prev_index, errors, Pe, grid, closest>>

\* Lines 54-55: np.random.normal(0, sigma, tx_data.shape) is sigma*z per entry.
Channel ==
    /\ pc = "channel"
    /\ \E z \in [1..Len(tx_data) -> [1..D -> ZSamples]] :
          LET nz == [i \in 1..Len(tx_data) |-> [k \in 1..D |-> sigma * z[i][k]]]
          IN  /\ noise' = nz
              /\ rx_data' = AddNoise(tx_data, nz)
    /\ pc' = "detect"
    /\ UNCHANGED <<raised, A, M, N, N0, noise_var, sigma, const_points,
                   tx_index, tx_data, rx_index, prev_index, errors, Pe, grid,
                   closest>>

\* Line 72.
Detect ==
    /\ pc = "detect"
    /\ rx_index' = detect(rx_data, const_points)
    /\ pc' = "errors"
    /\ UNCHANGED <<raised, A, M, N, N0, noise_var, sigma, const_points,
                   tx_index, tx_data, noise, rx_data, prev_index, errors, Pe,
                   grid, closest>>

\* Lines 81-82.
ErrorRate ==
    /\ pc = "errors"
    /\ errors' = CountErrors(tx_index, rx_index)
    /\ Pe' = Quotient(CountErrors(tx_index, rx_index), N)
    /\ pc' = "map"
    /\ UNCHANGED <<raised, A, M, N, N0, noise_var, sigma, const_points,
                   tx_index, tx_data, noise, rx_data, rx_index, prev_index,
                   grid, closest>>

\* Lines 131-137.
DecisionMap ==
    /\ pc = "map"
    /\ grid' = linspace(-2 * A, 2 * A, GridNum)
    /\ closest' = Closest(linspace(-2 * A, 2 * A, GridNum), const_points)
    /\ pc' = "done"
    /\ UNCHANGED <<raised, A, M, N, N0, noise_var, sigma, const_points,
                   tx_index, tx_data, noise, rx_data, rx_index, prev_index,
                   errors, Pe>>

(***************************************************************************)
(* detect called on its own: any constellation, any received point.        *)
(***************************************************************************)
\* A received array of one row against a constellation, before the call.
DetectInput(received, const) ==
    /\ pc = "call"
    /\ raised = "none"
    /\ const_points = const /\ rx_data = received
    /\ A = Unset /\ M = Unset /\ N = Unset /\ N0 = Unset
    /\ noise_var = Unset /\ sigma = Unset
    /\ tx_index = <<>> /\ tx_data = <<>> /\ noise = <<>>
    /\ rx_index = <<>> /\ prev_index = <<>>
    /\ errors = Unset /\ Pe = Unset /\ grid = <<>> /\ closest = <<>>

\* The cube constellations of line 34 and free-form ones of 1 or 2 dimensions.
Constellations ==
    {product(<<-a, a>>, D) : a \in 1..MaxA}
    \cup UNION {[1..m -> [1..d -> ConstCoords]] : m \in 1..MaxM, d \in 1..2}

\* Received points of 1..D dimensions.
ReceivedPoints == UNION {[1..d -> (-MaxCoord)..MaxCoord] : d \in 1..D}

InitDetect ==
    \E const \in Constellations, r \in ReceivedPoints : DetectInput(<<r>>, const)

\* rx_index = detect(rx_data, const_points): returns, or const - r raises.
DetectCall ==
    /\ pc = "call"
    /\ IF DetectRaises(rx_data, const_points)
       THEN /\ raised' = "ValueError"
            /\ pc' = "aborted"
            /\ UNCHANGED rx_index
       ELSE /\ rx_index' = detect(rx_data, const_points)
            /\ pc' = "returned"
            /\ UNCHANGED raised
    /\ UNCHANGED <<A, M, N, N0, noise_var, sigma, const_points, tx_index,
                   tx_data, noise, rx_data, prev_index, errors, Pe, grid,
                   closest>>

\* The same call once more on the same input.
DetectAgain ==
    /\ pc = "returned"
    /\ prev_index' = rx_index
    /\ rx_index' = detect(rx_data, const_points)
    /\ pc' = "repeated"
    /\ UNCHANGED <<raised, A, M, N, N0, noise_var, sigma, const_points,
                   tx_index, tx_data, noise, rx_data, errors, Pe, grid,
                   closest>>

(***************************************************************************)
(* Specifications.                                                         *)
(***************************************************************************)
\* Steps 1-6 of the script.
Next ==
    \/ DeriveNoise
    \/ Constellation
    \/ Transmit
    \/ Channel
    \/ Detect
    \/ ErrorRate

\* The whole script, steps 1-10.
NextScript ==
    \/ Next
    \/ DecisionMap

NextDetect ==
    \/ DetectCall
    \/ DetectAgain

\* Steps 1-6 under every valid configuration.
Spec == Init /\ [][Next]_vars

\* Steps 1-6 under any configuration, valid or not.
SpecAny == InitAny /\ [][Next]_vars

\* The whole script on runs of one symbol.
SpecMap == InitMap /\ [][NextScript]_vars

\* detect as a function of its two arguments.
SpecDetect == InitDetect /\ [][NextDetect]_vars

(***************************************************************************)
(* Properties.                                                             *)
(***************************************************************************)
AfterConstellation == pc \in {"transmit", "channel", "detect", "errors", "map", "done"}
AfterTransmit == pc \in {"channel", "detect", "errors", "map", "done"}
AfterChannel == pc \in {"detect", "errors", "map", "done"}
AfterDetect == pc \in {"errors", "map", "done"}
AfterErrors == pc \in {"map", "done"}
Returned == pc \in {"returned", "repeated"}

Sign(x) == IF x > 0 THEN 1 ELSE IF x < 0 THEN -1 ELSE 0

\* The squared Euclidean distance of two points of the same dimension.
EuclidSq(p, q) == SumSeq([k \in 1..Len(p) |-> (p[k] - q[k]) * (p[k] - q[k])])

\* The constellation and the received points have the same dimension.
SameDim ==
    \A m \in 1..Len(const_points) : \A i \in 1..Len(rx_data) :
        Len(const_points[m]) = Len(rx_data[i])

\* The constellation is the cube of half side a.
CubeOf(a) ==
    /\ Len(const_points) = 8
    /\ \A m \in 1..8 : /\ Len(const_points[m]) = D
                       /\ \A k \in 1..D : const_points[m][k] \in {-a, a}
    /\ \A m1, m2 \in 1..8 : m1 # m2 => const_points[m1] # const_points[m2]

\* C1: for a received point and a constellation of the same dimension, detect
\* returns an index whose constellation point is at minimum Euclidean
\* distance from the received point, the lowest index among the points at
\* that minimum distance; a repeated call on the same input returns the same
\* indices.
C1_DetectNearestLowestIndex ==
    /\ (Returned /\ SameDim) =>
         /\ Len(rx_index) = Len(rx_data)
         /\ \A i \in 1..Len(rx_data) :
              /\ rx_index[i] \in 0..(Len(const_points) - 1)
              /\ \A m \in 1..Len(const_points) :
                   LET got == EuclidSq(const_points[rx_index[i] + 1], rx_data[i])
                       dm == EuclidSq(const_points[m], rx_data[i])
                   IN  /\ got <= dm
                       /\ dm = got => rx_index[i] + 1 <= m
    /\ pc = "repeated" => rx_index = prev_index

\* Two different constellation points tie at the minimum distance, the lower
\* index was returned, and the call was repeated.
C1_Witness ==
    /\ pc = "repeated" /\ SameDim
    /\ \E m \in 1..Len(const_points) :
          /\ m > rx_index[1] + 1
          /\ const_points[m] # const_points[rx_index[1] + 1]
          /\ EuclidSq(const_points[m], rx_data[1])
               = EuclidSq(const_points[rx_index[1] + 1], rx_data[1])

\* C2: for every A > 0 the constellation has exactly 8 points, every
\* coordinate of every point is -A or +A, and each of the 8 sign combinations
\* is the point of exactly one index.
C2_ConstellationIsCube ==
    (AfterConstellation /\ A > 0) =>
        /\ Len(const_points) = 8
        /\ \A m \in 1..Len(const_points) :
             /\ Len(const_points[m]) = D
             /\ \A k \in 1..D : const_points[m][k] \in {-A, A}
        /\ \A s \in [1..D -> {-1, 1}] :
             Cardinality({m \in 1..Len(const_points) :
                            \A k \in 1..D : const_points[m][k] = s[k] * A}) = 1

\* The constellation of the largest amplitude has been generated.
C2_Witness ==
    /\ pc = "transmit" /\ A = MaxA
    /\ const_points[1] = <<-A, -A, -A>>
    /\ const_points[8] = <<A, A, A>>

\* C3: with sigma = 0 the received points are the transmitted points, the
\* detected sequence equals the transmitted sequence at every position, and
\* the error count is 0.
C3_NoNoiseNoErrors ==
    /\ (AfterDetect /\ sigma = 0) => (rx_data = tx_data /\ rx_index = tx_index)
    /\ (AfterErrors /\ sigma = 0) => errors = 0

\* A noiseless run of two different symbols has been detected and counted.
C3_Witness ==
    /\ AfterErrors /\ sigma = 0 /\ N0 = 0
    /\ N = 2 /\ tx_index[1] # tx_index[2]

\* C4: ErrorCount is the number of positions where the transmitted and the
\* detected sequence differ, an integer in 0..N, and ErrorRate is
\* ErrorCount / N, a value in [0, 1].
C4_ErrorCountAndRate ==
    AfterErrors =>
        /\ Len(tx_index) = N /\ Len(rx_index) = N
        /\ errors = Cardinality({i \in 1..N : tx_index[i] # rx_index[i]})
        /\ errors \in 0..N
        /\ Pe = [num |-> errors, den |-> N]
        /\ Pe.den > 0 /\ 0 <= Pe.num /\ Pe.num <= Pe.den

\* One of two symbols was detected wrongly.
C4_Witness ==
    /\ AfterErrors /\ N = 2 /\ errors = 1
    /\ tx_index[1] = rx_index[1] /\ tx_index[2] # rx_index[2]

\* C5: a non-positive A, N or N0 is rejected at the start of its stage
\* (constellation, symbol source, channel): the run aborts with an error and
\* no later stage is reached with such a parameter.
C5_InvalidParameterRejected ==
    /\ A <= 0 => (pc \in {"params", "constellation", "aborted"}
                  /\ const_points = <<>>)
    /\ N <= 0 => (pc \in {"params", "constellation", "transmit", "aborted"}
                  /\ tx_index = <<>>)
    /\ N0 <= 0 => (pc \in {"params", "constellation", "transmit", "channel",
                           "aborted"}
                   /\ rx_data = <<>>)
    /\ pc = "aborted" => raised # "none"

\* C6: when the received points and the constellation disagree on the
\* dimension, detect fails and never returns a detected sequence.
C6_DimensionMismatchRejected ==
    ~SameDim => (/\ ~Returned
                 /\ rx_index = <<>>
                 /\ pc = "aborted" => raised # "none")

\* C7: the sequences have length N and correspond by position: the i-th
\* transmitted point is the constellation point of the i-th index, the i-th
\* received point is the i-th transmitted point plus the i-th noise vector,
\* and the i-th detected index is the detector's result for the i-th received
\* point.
C7_PositionalCorrespondence ==
    /\ AfterTransmit =>
         /\ Len(tx_index) = N /\ Len(tx_data) = N
         /\ \A i \in 1..N : tx_data[i] = const_points[tx_index[i] + 1]
    /\ AfterChannel =>
         /\ Len(noise) = N /\ Len(rx_data) = N
         /\ \A i \in 1..N : \A k \in 1..D :
              rx_data[i][k] = tx_data[i][k] + noise[i][k]
    /\ AfterDetect =>
         /\ Len(rx_index) = N
         /\ \A i \in 1..N :
              rx_index[i] = detect(<<rx_data[i]>>, const_points)[1]

\* A run of two symbols whose indices, noise vectors and detected indices all
\* differ between the two positions.
C7_Witness ==
    /\ AfterErrors /\ N = 2
    /\ tx_index[1] # tx_index[2]
    /\ noise[1] # noise[2]
    /\ rx_index[1] # rx_index[2]
    /\ rx_index[1] # tx_index[1]

\* C8: in the z = 0 decision map, two grid points whose x have the same
\* non-zero sign and whose y have the same non-zero sign get the same winning
\* index, and two grid points that differ in the sign of x or of y get
\* different winning indices.
C8_MapBoundariesOnAxes ==
    pc = "done" =>
        \A i, j, i2, j2 \in 1..Len(grid) :
            (grid[i] # 0 /\ grid[j] # 0 /\ grid[i2] # 0 /\ grid[j2] # 0) =>
                ((Sign(grid[j]) = Sign(grid[j2]) /\ Sign(grid[i]) = Sign(grid[i2]))
                    <=> closest[i][j] = closest[i2][j2])

\* The map is computed and its four corner cells carry four different indices.
C8_Witness ==
    /\ pc = "done"
    /\ Cardinality({closest[1][1], closest[1][Len(grid)],
                    closest[Len(grid)][1], closest[Len(grid)][Len(grid)]}) = 4
    /\ closest[1][1] = closest[2][2]

\* C9: against the cube constellation of any A > 0, a received point whose
\* three coordinates are all non-zero is detected as the constellation point
\* whose coordinate signs are the signs of the received point's coordinates.
C9_DetectionRegionsAreOctants ==
    Returned =>
        \A a \in 1..MaxA : \A i \in 1..Len(rx_data) :
            (/\ CubeOf(a)
             /\ Len(rx_data[i]) = D
             /\ \A k \in 1..D : rx_data[i][k] # 0) =>
                \A k \in 1..D :
                    Sign(const_points[rx_index[i] + 1][k]) = Sign(rx_data[i][k])

\* The point (2, -1, 2) was detected against the cube of half side 1 as
\* index 5, the corner (+, -, +).
C9_Witness ==
    /\ pc = "returned" /\ CubeOf(1)
    /\ rx_data = << <<2, -1, 2>> >>
    /\ rx_index = <<5>>

\* C10: for every grid point (x, y, 0) the winning index stored in the
\* decision map is the index detect returns for that point against the same
\* constellation (in the map's units), ties included.
C10_MapAgreesWithDetect ==
    pc = "done" =>
        \A i, j \in 1..Len(grid) :
            closest[i][j] =
                detect(<< <<grid[j], grid[i], 0>> >>,
                       Scaled(const_points, Len(grid) - 1))[1]

\* The map is computed; the cell of the grid point (x, y) = (max, min) holds
\* index 4, the lower of the two corners (+, -, -) and (+, -, +) tied there.
C10_Witness ==
    /\ pc = "done" /\ A = MaxA
    /\ closest[1][Len(grid)] = 4
    /\ closest[Len(grid)][1] = 2

====
